---------------------------- MODULE Spec2Model ----------------------------
(***************************************************************************)
(* Dual Bookmark Bar: the toggle / auto-save / bootstrap state machine of  *)
(* the extension's background script, over the browser's bookmark store.   *)
(*                                                                         *)
(* The repository holds two revisions of the background script:            *)
(*   "cached"  src/background.js      (folder ids cached in storage.local, *)
(*             single-slot debounce, gate tested on entry to the toggle)   *)
(*   "byname"  src/unnamed/part_000   (folders re-resolved by name, one    *)
(*             timer per notification, gate set but not tested on entry)   *)
(* rev says which script the browser runs; it never changes.               *)
(*                                                                         *)
(* Every async function is cut at its awaits: one action is the code run   *)
(* between two suspension points.  A loop of store calls over one list     *)
(* (remove every child, create every child) is one action.                 *)
(* The store delivers a mutation's notification before the mutating call   *)
(* resolves, so the listener runs inside the step that made the mutation.  *)
(***************************************************************************)
EXTENDS Integers, Sequences, FiniteSets, TLC

VARIABLES
  rev,        \* which revision of the background script runs
  bar,        \* children of the bookmarks bar: a forest of nodes
  fold,       \* folders under "Other bookmarks" made by bootstrap: id -> node
  nextId,     \* next id the store hands out for such a folder
  kv,         \* chrome.storage.local
  gate,       \* isOperationInProgress / isTogglingBookmarks
  timers,     \* pending setTimeout callbacks, in firing order
  storageParentId, \* the cached revision's global of that name
  tpc, tloc,  \* toggleBookmarks invocations: position and locals
  spc, sloc,  \* saveCurrentBookmarks invocations: position and locals
  bpc, bloc,  \* bootstrap invocations: position and locals
  faults,     \* store calls that may still be rejected in this run
  h           \* history of the run, read only by the properties

vars == <<rev, bar, fold, nextId, kv, gate, timers, storageParentId,
          tpc, tloc, spc, sloc, bpc, bloc, faults, h>>

-----------------------------------------------------------------------------
(* Bounds *)
MaxBoot == 2      \* install / startup events in one run
MaxTimers == 2    \* pending timers
MaxBar == 2       \* longest list that overlapping toggles may load twice over
MaxFail == 1      \* store calls rejected in one run

(* Program constants *)
BAR_ID == 1
OTHER_BOOKMARKS_ID == 2
SAVE_DELAY_CACHED == 1000
GATE_DELAY == 1000
SAVE_DELAY_BYNAME == 500
SEED_DELAY == 100

Revs == {"cached", "byname"}
Togglers == {1, 2}
Savers == {0, 1, 2}          \* 0: the timer's save; t: the save toggle t awaits
Boots == 1..MaxBoot

-----------------------------------------------------------------------------
(* Bookmark nodes.  A node without url is a folder. *)
NoUrl == "undefined"
Leaf(t, u) == [title |-> t, url |-> u, kids |-> <<>>]
Dir(t, k) == [title |-> t, url |-> NoUrl, kids |-> k]
LA == Leaf("A", "http://a")
LB == Leaf("B", "http://b")

(* What the user may have on the bar. *)
BarChoices == {<<>>, <<LA>>, <<LB, Dir("F", <<LA>>)>>}
NestedChoices == {<<>>, <<LA>>}

(* Folder names (the cached revision prefixes each with an emoji) *)
STORAGE_FOLDER_NAME == "Dual Bookmarks Storage"
BACKUP_FOLDER_NAME == "Bookmark Backup"
PRIVATE_FOLDER_NAME == "Private Bookmarks"
WORK_FOLDER_NAME == "Work Bookmarks"

Min(S) == CHOOSE x \in S : \A y \in S : x <= y

(* chrome.bookmarks.getChildren over the backup hierarchy, oldest first *)
Children(f, p) == {i \in DOMAIN f : f[i].parent = p}
Exists(f, id) == id \in DOMAIN f

(* children.find(child => child.title === name && !child.url); 0: undefined *)
FindIn(f, p, name) ==
  LET c == {i \in Children(f, p) : f[i].title = name}
  IN  IF c = {} THEN 0 ELSE Min(c)

(* chrome.bookmarks.create({parentId, title}) of a folder under Other *)
CreateFolder(f, id, p, name) ==
  [i \in DOMAIN f \cup {id} |->
     IF i = id THEN [parent |-> p, title |-> name, kids |-> <<>>] ELSE f[i]]

(* chrome.bookmarks.removeTree on a backup folder: it and all below it *)
RemoveFolder(f, id) ==
  LET gone == {id} \cup Children(f, id)
                   \cup UNION {Children(f, c) : c \in Children(f, id)}
  IN  [i \in DOMAIN f \ gone |-> f[i]]

(* A folder whose children are added to and never replaced *)
SetKidsAppend(f, id, k) == [f EXCEPT ![id].kids = f[id].kids \o k]

SetKids(f, id, k) == [f EXCEPT ![id].kids = k]


-----------------------------------------------------------------------------
(* Recursive copy.  items: the source's children; n: which create call is  *)
(* rejected (1: the next one, 0: none); strict: a rejected create aborts   *)
(* the whole copy (cached revision) instead of skipping that child (byname *)
(* revision).  Result: the nodes created under the destination in order,   *)
(* the countdown left, and whether the copy was aborted.                   *)
(* A copy that creates each child but does not descend into sub-folders *)
copyFlat(items, n, strict) ==
  [out |-> [i \in 1..Len(items) |->
              [title |-> items[i].title, url |-> items[i].url, kids |-> <<>>]],
   n |-> 0, ab |-> FALSE]

RECURSIVE copyItems(_, _, _)
copyItems(items, n, strict) ==
  IF items = <<>> THEN [out |-> <<>>, n |-> n, ab |-> FALSE]
  ELSE
    LET item == Head(items)
        n1 == IF n = 0 THEN 0 ELSE n - 1
    IN  IF n = 1
        THEN IF strict
             THEN [out |-> <<>>, n |-> 0, ab |-> TRUE]
             ELSE copyItems(Tail(items), 0, strict)
        ELSE
          LET sub == IF item.url = NoUrl
                     THEN copyItems(item.kids, n1, strict)
                     ELSE [out |-> <<>>, n |-> n1, ab |-> FALSE]
              newItem == [title |-> item.title, url |-> item.url, kids |-> sub.out]
          IN  IF sub.ab
              THEN [out |-> <<newItem>>, n |-> 0, ab |-> TRUE]
              ELSE LET rest == copyItems(Tail(items), sub.n, strict)
                   IN  [out |-> <<newItem>> \o rest.out, n |-> rest.n, ab |-> rest.ab]

(* Number of create calls a full copy of items makes *)
RECURSIVE Size(_)
Size(items) ==
  IF items = <<>> THEN 0 ELSE 1 + Size(Head(items).kids) + Size(Tail(items))

(* Which create call may be rejected in a copy of items: 0 is none *)
FailChoices(items) == IF faults > 0 THEN 0..Size(items) ELSE {0}

-----------------------------------------------------------------------------
(* Timers, in firing order.  A timer fires after every timer set earlier   *)
(* with a delay no longer than its own.  It may fire before a timer set    *)
(* earlier with a longer delay (a 500 ms debounce before a 1000 ms         *)
(* cool-down) while less than the difference has passed since that one was *)
(* set; how much has passed is not known, so every such place is possible, *)
(* until a timer set after the longer one fires: by then the shorter delay *)
(* has passed and the longer timer is late, nothing set from now on fires  *)
(* before it.                                                              *)
(*   older  how many pending timers with a longer delay were set before it *)
(*   late   a timer set after this one has fired                           *)
Timer(k, d, own, arg) ==
  [kind |-> k, delay |-> d, own |-> own, arg |-> arg, older |-> 0, late |-> FALSE]

InsertAt(tm, t, p) == SubSeq(tm, 1, p) \o <<t>> \o SubSeq(tm, p + 1, Len(tm))

setTimeout(tm, t) ==
  LET before == {i \in 1..Len(tm) : tm[i].delay <= t.delay}
      lo == IF before = {} THEN 0 ELSE CHOOSE i \in before : \A j \in before : j <= i
      new == [t EXCEPT !.older = Cardinality({i \in 1..Len(tm) : tm[i].delay > t.delay})]
  IN  {InsertAt(tm, new, p) : p \in {q \in lo..Len(tm) : \A i \in (q + 1)..Len(tm) : ~tm[i].late}}

(* The queue once its head has fired *)
Fired(tm) ==
  LET f == Head(tm)
      rest == Tail(tm)
      longer(i) == Cardinality({j \in 1..i : rest[j].delay > f.delay})
  IN  [i \in 1..Len(rest) |->
         IF rest[i].delay > f.delay
         THEN [rest[i] EXCEPT !.late = @ \/ longer(i) <= f.older]
         ELSE IF rest[i].delay < f.delay /\ rest[i].older > 0
         THEN [rest[i] EXCEPT !.older = @ - 1]
         ELSE rest[i]]

(* clearTimeout(saveTimeout): drops the pending save timer, if any *)
clearTimeout(tm) == SelectSeq(tm, LAMBDA t : t.kind # "save")

(* handleBookmarkChange: the timer queues it can leave.  own: the          *)
(* notification came from a toggle's own clear or load of the bar.         *)
handleBookmarkChange(tm, own) ==
  IF rev = "cached"
  THEN setTimeout(clearTimeout(tm), Timer("save", SAVE_DELAY_CACHED, own, 0))
  ELSE setTimeout(tm, Timer("save", SAVE_DELAY_BYNAME, own, 0))

(* The listeners' filter: n notifications whose parent is the bar *)
Notified(tm, n, own) == IF n = 0 THEN {tm} ELSE handleBookmarkChange(tm, own)


-----------------------------------------------------------------------------
(* The mode flag: currentMode / activeFolder in chrome.storage.local *)
Other(m) == IF m = "private" THEN "work" ELSE "private"

NoT == [newMode |-> "private", src |-> 0]
NoS == [mode |-> "private", target |-> 0]
NoB == [stage |-> "root", root |-> 0, priv |-> 0, work |-> 0]

InFlight == {t \in Togglers : tpc[t] # "idle"}

(* The longest list of children on the bar or in a backup folder.  Two     *)
(* overlapping toggles can load the bar twice over; such a toggle starts   *)
(* only while the doubled list fits MaxBar.                                *)
Longest ==
  LET lens == {Len(bar)} \cup {Len(fold[i].kids) : i \in DOMAIN fold}
  IN  CHOOSE n \in lens : \A m \in lens : m <= n
FreeToggler == Min({t \in Togglers : tpc[t] = "idle"})
FreeBoot == Min({b \in Boots : bpc[b] = "new"})

(* Bootstrap runs suspended at a store call.  One browser start delivers   *)
(* one onInstalled and one onStartup, so a run starts with at most one     *)
(* other run still suspended.                                              *)
BootsInFlight == {b \in Boots : bpc[b] \notin {"new", "done"}}
RoomToBoot == Cardinality(BootsInFlight) <= 1

(* currentMode as each revision's toggle reads it, and the folder holding  *)
(* that mode's set (0: none), resolved the way the revision resolves it    *)
ModeAsRead == IF kv.mode = "unset" /\ rev = "cached" THEN "private" ELSE kv.mode
FolderOf(m) ==
  IF rev = "cached"
  THEN LET id == IF m = "private" THEN kv.privId ELSE kv.workId
       IN  IF Exists(fold, id) THEN id ELSE 0
  ELSE LET root == FindIn(fold, OTHER_BOOKMARKS_ID, BACKUP_FOLDER_NAME)
       IN  IF root = 0 THEN 0
           ELSE FindIn(fold, root, IF m = "private" THEN PRIVATE_FOLDER_NAME
                                   ELSE WORK_FOLDER_NAME)
KidsOf(m) == IF FolderOf(m) = 0 THEN <<>> ELSE fold[FolderOf(m)].kids

-----------------------------------------------------------------------------
(* History, read only by the properties.                                   *)
(*   ev    how the toggle that has just ended ended, "-" otherwise         *)
(*   t0    when tgOn, per toggle in flight: the bar and mode when it was   *)
(*         requested, whether the gate was set then, and whether the next  *)
(*         mode's folder was missing then                                  *)
(*   fin   t0 of the toggle that has just ended                            *)
(*   own   when tgOn: a save has started from a timer set by a toggle's    *)
(*         own bar mutation                                                *)
(*   rt    two-toggle round trip being followed, when rtOn: 1, 3 while the *)
(*         first, second toggle runs, 2, 4 once it has switched            *)
(*   clean when svOn: the auto-save in flight has run so far with no step  *)
(*         of anything else since its timer fired                          *)
(* ev also tells a rejected store call that no handler caught ("escaped"), *)
(* and, when svOn, a timer's save that returned at the gate ("skipped") or *)
(* ran clean to its end ("saved").                                         *)
NoT0 == [bar |-> <<>>, mode |-> "unset", gated |-> FALSE, missing |-> FALSE]
NoRT == [n |-> 0, bar |-> <<>>, mode |-> "unset"]
H0 == [ev |-> "-", t0 |-> [t \in Togglers |-> NoT0], fin |-> NoT0,
       own |-> FALSE, rt |-> NoRT, clean |-> FALSE,
       tgOn |-> FALSE, rtOn |-> FALSE, svOn |-> FALSE]

SaversInFlight == {s \in Savers : spc[s] # "idle"}
Ends == {"switched", "aborted"}

H_ev(e) ==
  IF e \in Ends \/ e = "escaped" THEN e
  ELSE IF h.svOn /\ (e = "skipped" \/ (e = "saved" /\ h.clean)) THEN e
  ELSE "-"

H_clean(e) ==
  IF ~h.svOn THEN FALSE
  ELSE IF e = "saving" THEN TRUE
  ELSE IF e = "savestep" THEN h.clean
  ELSE FALSE

H_t0(e, t) ==
  [x \in Togglers |->
     IF ~h.tgOn THEN NoT0
     ELSE IF x = t /\ e = "toggle"
     THEN [bar |-> bar, mode |-> kv.mode, gated |-> gate,
           missing |-> FolderOf(Other(ModeAsRead)) = 0]
     ELSE IF x = t /\ e \in Ends THEN NoT0
     ELSE h.t0[x]]

H_rt(e) ==
  IF ~h.rtOn THEN h.rt
  ELSE IF e \in {"edit", "nested", "deleted", "aborted"} THEN NoRT
  ELSE IF e = "toggle"
       THEN IF InFlight # {} THEN NoRT
            ELSE IF h.rt.n = 2 THEN [h.rt EXCEPT !.n = 3]
            ELSE [n |-> 1, bar |-> bar, mode |-> kv.mode]
  ELSE IF e = "switched" /\ h.rt.n \in {1, 3} THEN [h.rt EXCEPT !.n = h.rt.n + 1]
  ELSE h.rt

(* The history after event e (of toggle t, when it is a toggle's) *)
H(e, t) ==
  [ev |-> H_ev(e),
   t0 |-> H_t0(e, t),
   fin |-> IF e \in Ends THEN h.t0[t] ELSE NoT0,
   own |-> h.own \/ (h.tgOn /\ e = "saving" /\ Head(timers).own),
   rt |-> H_rt(e),
   clean |-> H_clean(e),
   tgOn |-> h.tgOn,
   rtOn |-> h.rtOn,
   svOn |-> h.svOn]

H_Ev(e) == H(e, 0)
H_Step == H_Ev("-")

(* The extension just added to the browser: nothing stored *)
Added ==
  /\ rev \in Revs
  /\ bar \in BarChoices
  /\ kv = [mode |-> "unset", init |-> FALSE, privId |-> 0, workId |-> 0, parentId |-> 0]
  /\ gate = FALSE
  /\ timers = <<>>
  /\ storageParentId = 0
  /\ tpc = [t \in Togglers |-> "idle"]
  /\ tloc = [t \in Togglers |-> NoT]
  /\ spc = [s \in Savers |-> "idle"]
  /\ sloc = [s \in Savers |-> NoS]
  /\ bloc = [b \in Boots |-> NoB]
  /\ h = H0

(* The same with no install or startup event delivered yet *)
Unstarted ==
  /\ Added
  /\ bpc = [b \in Boots |-> "new"]

(* The store before the extension is installed for the first time *)
Fresh ==
  /\ Unstarted
  /\ fold = <<>>
  /\ nextId = 3

(* The store a completed first bootstrap leaves: root 3, Private 4 seeded  *)
(* from the bar, Work 5 empty, mode private                                *)
Installed(r, b) ==
  [fold |-> (3 :> [parent |-> OTHER_BOOKMARKS_ID,
                   title |-> IF r = "cached" THEN STORAGE_FOLDER_NAME ELSE BACKUP_FOLDER_NAME,
                   kids |-> <<>>]
          @@ 4 :> [parent |-> 3, title |-> PRIVATE_FOLDER_NAME, kids |-> b]
          @@ 5 :> [parent |-> 3, title |-> WORK_FOLDER_NAME, kids |-> <<>>]),
   kv |-> IF r = "cached"
          THEN [mode |-> "private", init |-> TRUE, privId |-> 4, workId |-> 5,
                parentId |-> OTHER_BOOKMARKS_ID]
          ELSE [mode |-> "private", init |-> FALSE, privId |-> 0, workId |-> 0,
                parentId |-> 0]]

(* The installed extension, idle *)
Idle ==
  /\ rev \in Revs
  /\ bar \in BarChoices
  /\ nextId = 6
  /\ kv = Installed(rev, bar).kv
  /\ gate = FALSE
  /\ timers = <<>>
  /\ storageParentId = IF rev = "cached" THEN OTHER_BOOKMARKS_ID ELSE 0
  /\ tpc = [t \in Togglers |-> "idle"]
  /\ tloc = [t \in Togglers |-> NoT]
  /\ spc = [s \in Savers |-> "idle"]
  /\ sloc = [s \in Savers |-> NoS]
  /\ bpc = [b \in Boots |-> "done"]
  /\ bloc = [b \in Boots |-> NoB]

(* The same with the folders as a first bootstrap left them *)
AtWork ==
  /\ Idle
  /\ fold = Installed(rev, bar).fold

Init == AtWork /\ faults = 0 /\ h = [H0 EXCEPT !.tgOn = TRUE, !.svOn = TRUE]

-----------------------------------------------------------------------------
(* The environment *)

(* The user edits the bar's own children (create, remove, change, move):   *)
(* each such edit is notified with the bar as the node's parent.  The user *)
(* does not edit inside the few store calls of a toggle in flight.         *)
UserEdit ==
  /\ InFlight = {}
  /\ \E b \in BarChoices \ {bar} : bar' = b
  /\ timers' \in handleBookmarkChange(timers, FALSE)
  /\ Len(timers') <= MaxTimers
  /\ h' = H_Ev("edit")
  /\ UNCHANGED <<rev, fold, nextId, kv, gate, storageParentId, tpc, tloc,
                 spc, sloc, bpc, bloc, faults>>

(* The user edits inside a sub-folder of the bar, likewise not inside a    *)
(* toggle in flight: the node's parent is the sub-folder, so               *)
(* isBookmarksBarChange is false and no listener acts.                     *)
UserEditNested ==
  /\ InFlight = {}
  /\ \E i \in 1..Len(bar) : \E k \in NestedChoices :
        /\ bar[i].url = NoUrl
        /\ k # bar[i].kids
        /\ bar' = [bar EXCEPT ![i].kids = k]
  /\ h' = H_Ev("nested")
  /\ UNCHANGED <<rev, fold, nextId, kv, gate, timers, storageParentId, tpc,
                 tloc, spc, sloc, bpc, bloc, faults>>

(* The user deletes one of the backup folders in the bookmark manager *)
ExternalDelete ==
  /\ \E id \in DOMAIN fold : fold' = RemoveFolder(fold, id)
  /\ h' = H_Ev("deleted")
  /\ UNCHANGED <<rev, bar, nextId, kv, gate, timers, storageParentId, tpc,
                 tloc, spc, sloc, bpc, bloc, faults>>

-----------------------------------------------------------------------------
(* Timers common to both revisions *)

(* The cool-down callback: the gate is cleared *)
FireGate ==
  /\ timers # <<>>
  /\ Head(timers).kind = "gate"
  /\ timers' = Fired(timers)
  /\ gate' = FALSE
  /\ h' = H_Ev("reenabled")
  /\ UNCHANGED <<rev, bar, fold, nextId, kv, storageParentId, tpc, tloc,
                 spc, sloc, bpc, bloc, faults>>

(* A debounce callback whose save does not test the gate *)
FireSaveAnyway ==
  /\ timers # <<>>
  /\ Head(timers).kind = "save"
  /\ spc[0] = "idle"
  /\ timers' = Fired(timers)
  /\ spc' = [spc EXCEPT ![0] = "getMode"]
  /\ h' = H_Ev(IF gate THEN "skipped" ELSE "saving")
  /\ UNCHANGED <<rev, bar, fold, nextId, kv, gate, storageParentId, tpc,
                 tloc, sloc, bpc, bloc, faults>>

(* The debounce callback calls the save; the save tests the gate before    *)
(* its first await.  A save still suspended holds the next callback back.  *)
FireSave ==
  /\ timers # <<>>
  /\ Head(timers).kind = "save"
  /\ spc[0] = "idle"
  /\ timers' = Fired(timers)
  /\ spc' = IF gate THEN spc ELSE [spc EXCEPT ![0] = "getMode"]
  /\ h' = H_Ev(IF gate THEN "skipped" ELSE "saving")
  /\ UNCHANGED <<rev, bar, fold, nextId, kv, gate, storageParentId, tpc,
                 tloc, sloc, bpc, bloc, faults>>

(* A finally that arms no cool-down timer *)
ToggleFinallyForgets(n) == Notified(timers, n, TRUE)

(* try/finally of toggleBookmarks: the timer queues the finally can leave, *)
(* after n notifications of the toggle's own mutations in the same step    *)
ToggleFinally(n) ==
  UNION {setTimeout(tm, Timer("gate", GATE_DELAY, FALSE, 0)) : tm \in Notified(timers, n, TRUE)}


-----------------------------------------------------------------------------
(* Which removeTree of a clear may be rejected: 0 is none *)
ClearChoices(items) == IF faults > 0 THEN 0..Len(items) ELSE {0}
Failed(k) == IF k = 0 THEN faults ELSE faults - 1

(* toggleBookmarks returns or throws: locals dropped, cool-down armed *)
ToggleEnds(t, n, outcome) ==
  /\ tpc' = [tpc EXCEPT ![t] = "idle"]
  /\ tloc' = [tloc EXCEPT ![t] = NoT]
  /\ timers' \in ToggleFinally(n)
  /\ Len(timers') <= MaxTimers
  /\ h' = H(outcome, t)

(* saveCurrentBookmarks returns or throws into its own catch *)
SaveEnds(s, outcome) ==
  /\ spc' = [spc EXCEPT ![s] = "idle"]
  /\ sloc' = [sloc EXCEPT ![s] = NoS]
  /\ h' = H_Ev(outcome)

(* The store call toggle t is suspended at (a get or set of the flags, a   *)
(* lookup of the folders) is rejected: the catch of toggleBookmarks, then  *)
(* its finally                                                             *)
ToggleRejected(t) ==
  /\ tpc[t] \in {"getMode", "getIds", "setMode"}
  /\ spc[t] = "idle"
  /\ faults > 0
  /\ faults' = faults - 1
  /\ ToggleEnds(t, 0, "aborted")
  /\ UNCHANGED <<rev, bar, fold, nextId, kv, gate, storageParentId, spc, sloc,
                 bpc, bloc>>

(* The same for a save: its own catch *)
SaveRejected(s) ==
  /\ spc[s] \in {"getMode", "getIds"}
  /\ faults > 0
  /\ faults' = faults - 1
  /\ SaveEnds(s, "nosave")
  /\ UNCHANGED <<rev, bar, fold, nextId, kv, gate, timers, storageParentId,
                 tpc, tloc, bpc, bloc>>

-----------------------------------------------------------------------------
(* The cached revision: src/background.js *)

(* result[CURRENT_MODE_KEY] || "private" *)
C_currentMode == IF kv.mode = "unset" THEN "private" ELSE kv.mode

(* Icon click or shortcut with the gate clear: the gate is set *)
C_toggle_start(t) ==
  /\ rev = "cached"
  /\ InFlight # Togglers
  /\ t = FreeToggler
  /\ ~gate
  /\ gate' = TRUE
  /\ tpc' = [tpc EXCEPT ![t] = "getMode"]
  /\ h' = H("toggle", t)
  /\ UNCHANGED <<rev, bar, fold, nextId, kv, timers, storageParentId, tloc,
                 spc, sloc, bpc, bloc, faults>>

(* Icon click or shortcut with the gate set: log and return *)
C_toggle_refused ==
  /\ rev = "cached"
  /\ gate
  /\ h' = H_Ev("refused")
  /\ UNCHANGED <<rev, bar, fold, nextId, kv, gate, timers, storageParentId,
                 tpc, tloc, spc, sloc, bpc, bloc, faults>>

(* The mode is read; saveCurrentBookmarks is called and awaited *)
C_toggle_getMode(t) ==
  /\ rev = "cached"
  /\ tpc[t] = "getMode"
  /\ tloc' = [tloc EXCEPT ![t].newMode = Other(C_currentMode)]
  /\ tpc' = [tpc EXCEPT ![t] = "getIds"]
  /\ spc' = IF gate THEN spc ELSE [spc EXCEPT ![t] = "getMode"]
  /\ h' = H_Step
  /\ UNCHANGED <<rev, bar, fold, nextId, kv, gate, timers, storageParentId,
                 sloc, bpc, bloc, faults>>

(* getFolderIds; a missing cached id throws *)
C_toggle_getIds(t) ==
  /\ rev = "cached"
  /\ tpc[t] = "getIds"
  /\ spc[t] = "idle"
  /\ LET sourceId == IF tloc[t].newMode = "private" THEN kv.privId ELSE kv.workId
     IN  IF sourceId = 0
         THEN ToggleEnds(t, 0, "aborted")
         ELSE /\ tpc' = [tpc EXCEPT ![t] = "clear"]
              /\ tloc' = [tloc EXCEPT ![t].src = sourceId]
              /\ h' = H_Step
              /\ UNCHANGED timers
  /\ UNCHANGED <<rev, bar, fold, nextId, kv, gate, storageParentId, spc, sloc,
                 bpc, bloc, faults>>

(* copyBookmarks(sourceId, bar, true), first half: the bar is cleared *)
C_toggle_clear(t) ==
  /\ rev = "cached"
  /\ tpc[t] = "clear"
  /\ \E k \in ClearChoices(bar) :
       /\ faults' = Failed(k)
       /\ IF k = 0
          THEN /\ bar' = <<>>
               /\ tpc' = [tpc EXCEPT ![t] = "copy"]
               /\ timers' \in Notified(timers, Len(bar), TRUE)
               /\ h' = H_Step
               /\ UNCHANGED tloc
          ELSE /\ bar' = SubSeq(bar, k, Len(bar))
               /\ ToggleEnds(t, k - 1, "aborted")
  /\ UNCHANGED <<rev, fold, nextId, kv, gate, storageParentId, spc, sloc,
                 bpc, bloc>>

(* copyBookmarks(sourceId, bar, true), second half: the source is read     *)
(* and copied to the bar; a source that is gone throws                     *)
C_toggle_copy(t) ==
  /\ rev = "cached"
  /\ tpc[t] = "copy"
  /\ IF ~Exists(fold, tloc[t].src)
     THEN /\ ToggleEnds(t, 0, "aborted")
          /\ UNCHANGED <<bar, faults>>
     ELSE \E n \in FailChoices(fold[tloc[t].src].kids) :
            LET r == copyItems(fold[tloc[t].src].kids, n, TRUE)
            IN  /\ faults' = Failed(n)
                /\ bar' = bar \o r.out
                /\ IF r.ab
                   THEN ToggleEnds(t, Len(r.out), "aborted")
                   ELSE /\ tpc' = [tpc EXCEPT ![t] = "setMode"]
                        /\ timers' \in Notified(timers, Len(r.out), TRUE)
                        /\ h' = H_Ev("loaded")
                        /\ UNCHANGED tloc
  /\ UNCHANGED <<rev, fold, nextId, kv, gate, storageParentId, spc, sloc,
                 bpc, bloc>>

(* The new mode is persisted; finally arms the cool-down *)
C_toggle_setMode(t) ==
  /\ rev = "cached"
  /\ tpc[t] = "setMode"
  /\ kv' = [kv EXCEPT !.mode = tloc[t].newMode]
  /\ ToggleEnds(t, 0, "switched")
  /\ UNCHANGED <<rev, bar, fold, nextId, gate, storageParentId, spc, sloc,
                 bpc, bloc, faults>>

(* saveCurrentBookmarks after the gate test: the mode is read *)
C_save_getMode(s) ==
  /\ rev = "cached"
  /\ spc[s] = "getMode"
  /\ sloc' = [sloc EXCEPT ![s].mode = C_currentMode]
  /\ spc' = [spc EXCEPT ![s] = "getIds"]
  /\ h' = H_Ev("savestep")
  /\ UNCHANGED <<rev, bar, fold, nextId, kv, gate, timers, storageParentId,
                 tpc, tloc, bpc, bloc, faults>>

(* getFolderIds; a missing cached id returns *)
C_save_getIds(s) ==
  /\ rev = "cached"
  /\ spc[s] = "getIds"
  /\ LET targetId == IF sloc[s].mode = "private" THEN kv.privId ELSE kv.workId
     IN  IF targetId = 0
         THEN SaveEnds(s, "nosave")
         ELSE /\ spc' = [spc EXCEPT ![s] = "clear"]
              /\ sloc' = [sloc EXCEPT ![s].target = targetId]
              /\ h' = H_Ev("savestep")
  /\ UNCHANGED <<rev, bar, fold, nextId, kv, gate, timers, storageParentId,
                 tpc, tloc, bpc, bloc, faults>>

(* copyBookmarks(bar, targetId, true), first half: the folder is cleared *)
C_save_clear(s) ==
  /\ rev = "cached"
  /\ spc[s] = "clear"
  /\ IF ~Exists(fold, sloc[s].target)
     THEN /\ SaveEnds(s, "nosave")
          /\ UNCHANGED <<fold, faults>>
     ELSE \E k \in ClearChoices(fold[sloc[s].target].kids) :
            LET kids == fold[sloc[s].target].kids
            IN  /\ faults' = Failed(k)
                /\ IF k = 0
                   THEN /\ fold' = SetKids(fold, sloc[s].target, <<>>)
                        /\ spc' = [spc EXCEPT ![s] = "copy"]
                        /\ h' = H_Ev("savestep")
                        /\ UNCHANGED sloc
                   ELSE /\ fold' = SetKids(fold, sloc[s].target, SubSeq(kids, k, Len(kids)))
                        /\ SaveEnds(s, "nosave")
  /\ UNCHANGED <<rev, bar, nextId, kv, gate, timers, storageParentId, tpc,
                 tloc, bpc, bloc>>

(* copyBookmarks(bar, targetId, true), second half: the bar is copied *)
C_save_copy(s) ==
  /\ rev = "cached"
  /\ spc[s] = "copy"
  /\ IF ~Exists(fold, sloc[s].target)
     THEN /\ SaveEnds(s, "nosave")
          /\ UNCHANGED <<fold, faults>>
     ELSE \E n \in FailChoices(bar) :
            LET r == copyItems(bar, n, TRUE)
            IN  /\ faults' = Failed(n)
                /\ fold' = SetKids(fold, sloc[s].target,
                                   fold[sloc[s].target].kids \o r.out)
                /\ SaveEnds(s, IF r.ab THEN "nosave" ELSE "saved")
  /\ UNCHANGED <<rev, bar, nextId, kv, gate, timers, storageParentId, tpc,
                 tloc, bpc, bloc>>


-----------------------------------------------------------------------------
(* Bootstrap of the cached revision: initializeExtension, on onInstalled *)

BootEnds(b, outcome) ==
  /\ bpc' = [bpc EXCEPT ![b] = "done"]
  /\ bloc' = [bloc EXCEPT ![b] = NoB]
  /\ h' = H_Ev(outcome)

(* Which folder ensureFolder is after at each stage, and under what *)
C_stageName(st) ==
  IF st = "root" THEN STORAGE_FOLDER_NAME
  ELSE IF st = "priv" THEN PRIVATE_FOLDER_NAME ELSE WORK_FOLDER_NAME
StageParent(b) == IF bloc[b].stage = "root" THEN OTHER_BOOKMARKS_ID ELSE bloc[b].root
ParentExists(b) == bloc[b].stage = "root" \/ Exists(fold, bloc[b].root)

(* ensureFolder has returned folder id (0: null) for the current stage *)
C_ensured(b, id) ==
  LET st == bloc[b].stage
      loc == IF st = "root" THEN [bloc[b] EXCEPT !.root = id, !.stage = "priv"]
             ELSE IF st = "priv" THEN [bloc[b] EXCEPT !.priv = id, !.stage = "work"]
             ELSE [bloc[b] EXCEPT !.work = id]
  IN  IF (st = "root" /\ id = 0) \/ (st = "work" /\ (loc.priv = 0 \/ id = 0))
      THEN BootEnds(b, "bootfailed")
      ELSE /\ bloc' = [bloc EXCEPT ![b] = loc]
           /\ bpc' = [bpc EXCEPT ![b] = IF st = "work" THEN "seed" ELSE "find"]
           /\ h' = H_Step

C_install(b) ==
  /\ rev = "cached"
  /\ RoomToBoot
  /\ \E x \in Boots : bpc[x] = "new"
  /\ b = FreeBoot
  /\ bpc' = [bpc EXCEPT ![b] = "getInit"]
  /\ h' = H_Ev("install")
  /\ UNCHANGED <<rev, bar, fold, nextId, kv, gate, timers, storageParentId,
                 tpc, tloc, spc, sloc, bloc, faults>>

(* The initialized flag is read: set, loadStorageParent and return;        *)
(* unset, findStorageParent answers the Other Bookmarks anchor             *)
C_init_getInit(b) ==
  /\ rev = "cached"
  /\ bpc[b] = "getInit"
  /\ IF kv.init
     THEN /\ storageParentId' = kv.parentId
          /\ BootEnds(b, "loaded")
     ELSE /\ storageParentId' = OTHER_BOOKMARKS_ID
          /\ bpc' = [bpc EXCEPT ![b] = "find"]
          /\ h' = H_Step
          /\ UNCHANGED bloc
  /\ UNCHANGED <<rev, bar, fold, nextId, kv, gate, timers, tpc, tloc, spc,
                 sloc, faults>>

(* ensureFolder: getChildren and find; a parent that is gone gives null *)
C_ensureFolder_find(b) ==
  /\ rev = "cached"
  /\ bpc[b] = "find"
  /\ IF ~ParentExists(b)
     THEN C_ensured(b, 0)
     ELSE LET existing == FindIn(fold, StageParent(b), C_stageName(bloc[b].stage))
          IN  IF existing # 0
              THEN C_ensured(b, existing)
              ELSE /\ bpc' = [bpc EXCEPT ![b] = "create"]
                   /\ h' = H_Step
                   /\ UNCHANGED bloc
  /\ UNCHANGED <<rev, bar, fold, nextId, kv, gate, timers, storageParentId,
                 tpc, tloc, spc, sloc, faults>>

(* ensureFolder: create; a rejected create gives null *)
C_ensureFolder_create(b) ==
  /\ rev = "cached"
  /\ bpc[b] = "create"
  /\ \E ok \in IF faults > 0 THEN BOOLEAN ELSE {TRUE} :
       IF ok /\ ParentExists(b)
       THEN /\ fold' = CreateFolder(fold, nextId, StageParent(b), C_stageName(bloc[b].stage))
            /\ nextId' = nextId + 1
            /\ C_ensured(b, nextId)
            /\ UNCHANGED faults
       ELSE /\ faults' = IF ok THEN faults ELSE faults - 1
            /\ C_ensured(b, 0)
            /\ UNCHANGED <<fold, nextId>>
  /\ UNCHANGED <<rev, bar, kv, gate, timers, storageParentId, tpc, tloc, spc,
                 sloc>>

(* copyBookmarks(bar, privateFolder.id): the initial backup *)
C_init_seed(b) ==
  /\ rev = "cached"
  /\ bpc[b] = "seed"
  /\ IF ~Exists(fold, bloc[b].priv)
     THEN /\ IF bar = <<>>
             THEN /\ bpc' = [bpc EXCEPT ![b] = "persist"]
                  /\ h' = H_Step
                  /\ UNCHANGED bloc
             ELSE BootEnds(b, "bootfailed")
          /\ UNCHANGED <<fold, faults>>
     ELSE \E n \in FailChoices(bar) :
            LET r == copyItems(bar, n, TRUE)
            IN  /\ faults' = Failed(n)
                /\ fold' = SetKids(fold, bloc[b].priv, fold[bloc[b].priv].kids \o r.out)
                /\ IF r.ab
                   THEN BootEnds(b, "bootfailed")
                   ELSE /\ bpc' = [bpc EXCEPT ![b] = "persist"]
                        /\ h' = H_Step
                        /\ UNCHANGED bloc
  /\ UNCHANGED <<rev, bar, nextId, kv, gate, timers, storageParentId, tpc,
                 tloc, spc, sloc>>

(* chrome.storage.local.set of the mode, the marker and the folder ids *)
C_init_persist(b) ==
  /\ rev = "cached"
  /\ bpc[b] = "persist"
  /\ kv' = [mode |-> "private", init |-> TRUE, privId |-> bloc[b].priv,
            workId |-> bloc[b].work, parentId |-> storageParentId]
  /\ BootEnds(b, "booted")
  /\ UNCHANGED <<rev, bar, fold, nextId, gate, timers, storageParentId, tpc,
                 tloc, spc, sloc, faults>>

(* onStartup: loadStorageParent *)
C_startup ==
  /\ rev = "cached"
  /\ storageParentId' = kv.parentId
  /\ h' = H_Ev("startup")
  /\ UNCHANGED <<rev, bar, fold, nextId, kv, gate, timers, tpc, tloc, spc,
                 sloc, bpc, bloc, faults>>

(* onStartup when the get of loadStorageParent is rejected: neither the    *)
(* function nor the listener has a catch, the rejection leaves the handler *)
C_startup_rejected ==
  /\ rev = "cached"
  /\ faults > 0
  /\ faults' = faults - 1
  /\ h' = H_Ev("escaped")
  /\ UNCHANGED <<rev, bar, fold, nextId, kv, gate, timers, storageParentId,
                 tpc, tloc, spc, sloc, bpc, bloc>>

-----------------------------------------------------------------------------
(* The byname revision: src/unnamed/part_000 *)

(* toggleBookmarks up to its first await: the gate is set without being    *)
(* tested, and the save called next finds it set and returns               *)
N_toggle_begin(t) ==
  /\ rev = "byname"
  /\ InFlight # Togglers
  /\ t = FreeToggler
  /\ gate' = TRUE
  /\ tpc' = [tpc EXCEPT ![t] = "getMode"]
  /\ spc' = IF gate' THEN spc ELSE [spc EXCEPT ![t] = "getMode"]
  /\ h' = H("toggle", t)
  /\ UNCHANGED <<rev, bar, fold, nextId, kv, timers, storageParentId, tloc,
                 sloc, bpc, bloc, faults>>

(* Icon click or shortcut while no toggle is suspended at a store call *)
N_toggle_start(t) ==
  /\ InFlight = {}
  /\ N_toggle_begin(t)

(* Icon click or shortcut while another toggle is suspended at a store     *)
(* call (the bar is kept within MaxBar items)                              *)
N_toggle_overlap(t) ==
  /\ InFlight # {}
  /\ 2 * Longest <= MaxBar
  /\ N_toggle_begin(t)

(* activeFolder === 'private' ? 'work' : 'private' *)
N_toggle_getMode(t) ==
  /\ rev = "byname"
  /\ tpc[t] = "getMode"
  /\ spc[t] = "idle"
  /\ tloc' = [tloc EXCEPT ![t].newMode = IF kv.mode = "private" THEN "work" ELSE "private"]
  /\ tpc' = [tpc EXCEPT ![t] = "getIds"]
  /\ h' = H_Step
  /\ UNCHANGED <<rev, bar, fold, nextId, kv, gate, timers, storageParentId,
                 spc, sloc, bpc, bloc, faults>>

(* The backup root and the source folder are found by name, or the toggle  *)
(* returns                                                                 *)
N_toggle_getIds(t) ==
  /\ rev = "byname"
  /\ tpc[t] = "getIds"
  /\ LET backupFolder == FindIn(fold, OTHER_BOOKMARKS_ID, BACKUP_FOLDER_NAME)
         sourceFolder == IF backupFolder = 0 THEN 0
                         ELSE FindIn(fold, backupFolder,
                                     IF tloc[t].newMode = "private"
                                     THEN PRIVATE_FOLDER_NAME ELSE WORK_FOLDER_NAME)
     IN  IF sourceFolder = 0
         THEN ToggleEnds(t, 0, "aborted")
         ELSE /\ tpc' = [tpc EXCEPT ![t] = "clear"]
              /\ tloc' = [tloc EXCEPT ![t].src = sourceFolder]
              /\ h' = H_Step
              /\ UNCHANGED timers
  /\ UNCHANGED <<rev, bar, fold, nextId, kv, gate, storageParentId, spc, sloc,
                 bpc, bloc, faults>>

(* clearBookmarksBar *)
N_toggle_clear(t) ==
  /\ rev = "byname"
  /\ tpc[t] = "clear"
  /\ \E k \in ClearChoices(bar) :
       /\ faults' = Failed(k)
       /\ IF k = 0
          THEN /\ bar' = <<>>
               /\ tpc' = [tpc EXCEPT ![t] = "copy"]
               /\ timers' \in Notified(timers, Len(bar), TRUE)
               /\ Len(timers') <= MaxTimers
               /\ h' = H_Step
               /\ UNCHANGED tloc
          ELSE /\ bar' = SubSeq(bar, k, Len(bar))
               /\ ToggleEnds(t, k - 1, "aborted")
  /\ UNCHANGED <<rev, fold, nextId, kv, gate, storageParentId, spc, sloc,
                 bpc, bloc>>

(* copyBookmarks(sourceFolder.id, bar): it catches whatever it meets, so   *)
(* the toggle goes on to persist the mode                                  *)
N_toggle_copy(t) ==
  /\ rev = "byname"
  /\ tpc[t] = "copy"
  /\ \E n \in FailChoices(IF Exists(fold, tloc[t].src) THEN fold[tloc[t].src].kids ELSE <<>>) :
       LET items == IF Exists(fold, tloc[t].src) THEN fold[tloc[t].src].kids ELSE <<>>
           r == copyItems(items, n, FALSE)
       IN  /\ faults' = Failed(n)
           /\ bar' = bar \o r.out
           /\ timers' \in Notified(timers, Len(r.out), TRUE)
           /\ Len(timers') <= MaxTimers
  /\ tpc' = [tpc EXCEPT ![t] = "setMode"]
  /\ h' = H_Ev("loaded")
  /\ UNCHANGED <<rev, fold, nextId, kv, gate, storageParentId, tloc, spc,
                 sloc, bpc, bloc>>

(* The new mode is persisted; finally arms the cool-down *)
N_toggle_setMode(t) ==
  /\ rev = "byname"
  /\ tpc[t] = "setMode"
  /\ kv' = [kv EXCEPT !.mode = tloc[t].newMode]
  /\ ToggleEnds(t, 0, "switched")
  /\ UNCHANGED <<rev, bar, fold, nextId, gate, storageParentId, spc, sloc,
                 bpc, bloc, faults>>

(* saveCurrentBookmarksToBackup after the gate test: an unset mode returns *)
N_save_getMode(s) ==
  /\ rev = "byname"
  /\ spc[s] = "getMode"
  /\ IF kv.mode = "unset"
     THEN SaveEnds(s, "nosave")
     ELSE /\ sloc' = [sloc EXCEPT ![s].mode = kv.mode]
          /\ spc' = [spc EXCEPT ![s] = "getIds"]
          /\ h' = H_Ev("savestep")
  /\ UNCHANGED <<rev, bar, fold, nextId, kv, gate, timers, storageParentId,
                 tpc, tloc, bpc, bloc, faults>>

(* The backup root and the target folder are found by name, or the save    *)
(* returns                                                                 *)
N_save_getIds(s) ==
  /\ rev = "byname"
  /\ spc[s] = "getIds"
  /\ LET backupFolder == FindIn(fold, OTHER_BOOKMARKS_ID, BACKUP_FOLDER_NAME)
         targetFolder == IF backupFolder = 0 THEN 0
                         ELSE FindIn(fold, backupFolder,
                                     IF sloc[s].mode = "private"
                                     THEN PRIVATE_FOLDER_NAME ELSE WORK_FOLDER_NAME)
     IN  IF targetFolder = 0
         THEN SaveEnds(s, "nosave")
         ELSE /\ spc' = [spc EXCEPT ![s] = "clear"]
              /\ sloc' = [sloc EXCEPT ![s].target = targetFolder]
              /\ h' = H_Ev("savestep")
  /\ UNCHANGED <<rev, bar, fold, nextId, kv, gate, timers, storageParentId,
                 tpc, tloc, bpc, bloc, faults>>

(* The target folder is cleared *)
N_save_clear(s) ==
  /\ rev = "byname"
  /\ spc[s] = "clear"
  /\ IF ~Exists(fold, sloc[s].target)
     THEN /\ SaveEnds(s, "nosave")
          /\ UNCHANGED <<fold, faults>>
     ELSE \E k \in ClearChoices(fold[sloc[s].target].kids) :
            LET kids == fold[sloc[s].target].kids
            IN  /\ faults' = Failed(k)
                /\ IF k = 0
                   THEN /\ fold' = SetKids(fold, sloc[s].target, <<>>)
                        /\ spc' = [spc EXCEPT ![s] = "copy"]
                        /\ h' = H_Ev("savestep")
                        /\ UNCHANGED sloc
                   ELSE /\ fold' = SetKids(fold, sloc[s].target, SubSeq(kids, k, Len(kids)))
                        /\ SaveEnds(s, "nosave")
  /\ UNCHANGED <<rev, bar, nextId, kv, gate, timers, storageParentId, tpc,
                 tloc, bpc, bloc>>

(* copyBookmarks(bar, targetFolder.id): a destination that is gone, or a   *)
(* rejected create, is caught inside                                       *)
N_save_copy(s) ==
  /\ rev = "byname"
  /\ spc[s] = "copy"
  /\ IF ~Exists(fold, sloc[s].target)
     THEN UNCHANGED <<fold, faults>>
     ELSE \E n \in FailChoices(bar) :
            /\ faults' = Failed(n)
            /\ fold' = SetKids(fold, sloc[s].target,
                               fold[sloc[s].target].kids \o copyItems(bar, n, FALSE).out)
  /\ SaveEnds(s, IF Exists(fold, sloc[s].target) THEN "saved" ELSE "nosave")
  /\ UNCHANGED <<rev, bar, nextId, kv, gate, timers, storageParentId, tpc,
                 tloc, bpc, bloc>>

-----------------------------------------------------------------------------
(* Bootstrap of the byname revision: ensureBackupFoldersExist, on both     *)
(* onInstalled and onStartup                                               *)

N_stageName(st) ==
  IF st = "root" THEN BACKUP_FOLDER_NAME
  ELSE IF st = "priv" THEN PRIVATE_FOLDER_NAME ELSE WORK_FOLDER_NAME

(* The folder of the current stage is in hand: on to the next stage *)
N_found(b, id) ==
  LET st == bloc[b].stage
  IN  /\ bloc' = [bloc EXCEPT ![b] =
                    IF st = "root" THEN [bloc[b] EXCEPT !.root = id, !.stage = "priv"]
                    ELSE IF st = "priv" THEN [bloc[b] EXCEPT !.priv = id, !.stage = "work"]
                    ELSE [bloc[b] EXCEPT !.work = id]]
      /\ bpc' = [bpc EXCEPT ![b] = IF st = "work" THEN "getActive" ELSE "find"]
      /\ h' = H_Step

N_install(b) ==
  /\ rev = "byname"
  /\ RoomToBoot
  /\ \E x \in Boots : bpc[x] = "new"
  /\ b = FreeBoot
  /\ bpc' = [bpc EXCEPT ![b] = "find"]
  /\ h' = H_Ev("install")
  /\ UNCHANGED <<rev, bar, fold, nextId, kv, gate, timers, storageParentId,
                 tpc, tloc, spc, sloc, bloc, faults>>

N_startup(b) ==
  /\ rev = "byname"
  /\ RoomToBoot
  /\ \E x \in Boots : bpc[x] = "new"
  /\ b = FreeBoot
  /\ bpc' = [bpc EXCEPT ![b] = "find"]
  /\ h' = H_Ev("startup")
  /\ UNCHANGED <<rev, bar, fold, nextId, kv, gate, timers, storageParentId,
                 tpc, tloc, spc, sloc, bloc, faults>>

(* findFolderByName; a parent that is gone throws into the catch *)
N_ensure_find(b) ==
  /\ rev = "byname"
  /\ bpc[b] = "find"
  /\ IF ~ParentExists(b)
     THEN BootEnds(b, "bootfailed")
     ELSE LET existing == FindIn(fold, StageParent(b), N_stageName(bloc[b].stage))
          IN  IF existing # 0
              THEN N_found(b, existing)
              ELSE /\ bpc' = [bpc EXCEPT ![b] = "create"]
                   /\ h' = H_Step
                   /\ UNCHANGED bloc
  /\ UNCHANGED <<rev, bar, fold, nextId, kv, gate, timers, storageParentId,
                 tpc, tloc, spc, sloc, faults>>

(* chrome.bookmarks.create of the missing folder; a new Private folder     *)
(* arms the timer of the initial backup                                    *)
N_ensure_create(b) ==
  /\ rev = "byname"
  /\ bpc[b] = "create"
  /\ \E ok \in IF faults > 0 THEN BOOLEAN ELSE {TRUE} :
       IF ok /\ ParentExists(b)
       THEN /\ fold' = CreateFolder(fold, nextId, StageParent(b), N_stageName(bloc[b].stage))
            /\ nextId' = nextId + 1
            /\ N_found(b, nextId)
            /\ IF bloc[b].stage = "priv"
               THEN /\ timers' \in setTimeout(timers, Timer("seed", SEED_DELAY, FALSE, nextId))
                    /\ Len(timers') <= MaxTimers
               ELSE UNCHANGED timers
            /\ UNCHANGED faults
       ELSE /\ faults' = IF ok THEN faults ELSE faults - 1
            /\ BootEnds(b, "bootfailed")
            /\ UNCHANGED <<fold, nextId, timers>>
  /\ UNCHANGED <<rev, bar, kv, gate, storageParentId, tpc, tloc, spc, sloc>>

(* activeFolder is read: set, the run is over *)
N_ensure_getActive(b) ==
  /\ rev = "byname"
  /\ bpc[b] = "getActive"
  /\ IF kv.mode = "unset"
     THEN /\ bpc' = [bpc EXCEPT ![b] = "setActive"]
          /\ h' = H_Step
          /\ UNCHANGED bloc
     ELSE BootEnds(b, "booted")
  /\ UNCHANGED <<rev, bar, fold, nextId, kv, gate, timers, storageParentId,
                 tpc, tloc, spc, sloc, faults>>

N_ensure_setActive(b) ==
  /\ rev = "byname"
  /\ bpc[b] = "setActive"
  /\ kv' = [kv EXCEPT !.mode = "private"]
  /\ BootEnds(b, "booted")
  /\ UNCHANGED <<rev, bar, fold, nextId, gate, timers, storageParentId, tpc,
                 tloc, spc, sloc, faults>>

(* The initial backup's timer: copyBookmarks(bar, privateFolder.id) *)
FireSeed ==
  /\ timers # <<>>
  /\ Head(timers).kind = "seed"
  /\ timers' = Fired(timers)
  /\ LET dest == Head(timers).arg
     IN  IF ~Exists(fold, dest)
         THEN UNCHANGED <<fold, faults>>
         ELSE \E n \in FailChoices(bar) :
                /\ faults' = Failed(n)
                /\ fold' = SetKids(fold, dest, fold[dest].kids \o copyItems(bar, n, FALSE).out)
  /\ h' = H_Ev("seeded")
  /\ UNCHANGED <<rev, bar, nextId, kv, gate, storageParentId, tpc, tloc, spc,
                 sloc, bpc, bloc>>

-----------------------------------------------------------------------------
CachedRun ==
  \/ \E t \in Togglers :
        \/ C_toggle_start(t)
        \/ C_toggle_getMode(t)
        \/ C_toggle_getIds(t)
        \/ C_toggle_clear(t)
        \/ C_toggle_copy(t)
        \/ C_toggle_setMode(t)
  \/ C_toggle_refused
  \/ \E s \in Savers :
        \/ C_save_getMode(s)
        \/ C_save_getIds(s)
        \/ C_save_clear(s)
        \/ C_save_copy(s)

CachedBoot ==
  \/ \E b \in Boots :
        \/ C_install(b)
        \/ C_init_getInit(b)
        \/ C_ensureFolder_find(b)
        \/ C_ensureFolder_create(b)
        \/ C_init_seed(b)
        \/ C_init_persist(b)
  \/ C_startup

ByNameRun ==
  \/ \E t \in Togglers :
        \/ N_toggle_start(t)
        \/ N_toggle_getMode(t)
        \/ N_toggle_getIds(t)
        \/ N_toggle_clear(t)
        \/ N_toggle_copy(t)
        \/ N_toggle_setMode(t)
  \/ \E s \in Savers :
        \/ N_save_getMode(s)
        \/ N_save_getIds(s)
        \/ N_save_clear(s)
        \/ N_save_copy(s)

ByNameOverlap == \E t \in Togglers : N_toggle_overlap(t)

(* The installed extension at work: the user edits the bar and asks for    *)
(* toggles, timers fire, suspended handlers resume                         *)
Next ==
  \/ UserEdit
  \/ UserEditNested
  \/ FireGate
  \/ FireSave
  \/ CachedRun
  \/ ByNameRun

Spec == Init /\ [][Next]_vars

(* The same, with each two-toggle round trip followed in h.rt *)
InitRT == AtWork /\ faults = 0 /\ h = [H0 EXCEPT !.rtOn = TRUE]
SpecRT == InitRT /\ [][Next]_vars

(* The same, with the user deleting backup folders *)
NextDel ==
  \/ Next
  \/ ExternalDelete

InitDel == AtWork /\ faults = 0 /\ h = [H0 EXCEPT !.tgOn = TRUE]
SpecDel == InitDel /\ [][NextDel]_vars

(* The installed extension asked for toggles, with store calls that may be *)
(* rejected and with the Work folder there or deleted by the user          *)
InitFault ==
  /\ Idle
  /\ fold \in {Installed(rev, bar).fold, RemoveFolder(Installed(rev, bar).fold, 5)}
  /\ faults = MaxFail
  /\ h = H0
ToggleResumes ==
  \E t \in Togglers :
     \/ C_toggle_getMode(t)
     \/ C_toggle_getIds(t)
     \/ C_toggle_clear(t)
     \/ C_toggle_copy(t)
     \/ C_toggle_setMode(t)
     \/ N_toggle_getMode(t)
     \/ N_toggle_getIds(t)
     \/ N_toggle_clear(t)
     \/ N_toggle_copy(t)
     \/ N_toggle_setMode(t)
SaveResumes ==
  \E s \in Savers :
     \/ C_save_getMode(s)
     \/ C_save_getIds(s)
     \/ C_save_clear(s)
     \/ C_save_copy(s)
     \/ N_save_getMode(s)
     \/ N_save_getIds(s)
     \/ N_save_clear(s)
     \/ N_save_copy(s)
NextFault ==
  \/ FireGate
  \/ FireSave
  \/ \E t \in Togglers :
        \/ C_toggle_start(t)
        \/ C_toggle_getMode(t)
        \/ C_toggle_getIds(t)
        \/ C_toggle_clear(t)
        \/ C_toggle_copy(t)
        \/ C_toggle_setMode(t)
  \/ C_toggle_refused
  \/ ByNameRun
  \/ \E t \in Togglers : ToggleRejected(t)
  \/ \E s \in Savers : SaveRejected(s)

(* The event loop goes on: while a timer is due or a handler can resume,   *)
(* one of them runs                                                        *)
Progress ==
  \/ FireGate
  \/ FireSave
  \/ ToggleResumes
  \/ SaveResumes

SpecFault ==
  /\ InitFault
  /\ [][NextFault]_vars
  /\ WF_vars(Progress)

(* The byname revision with toggles requested while a toggle is suspended  *)
(* at a store call (a double click, or icon and shortcut together), from   *)
(* a bar of one bookmark and with no other edit by the user                *)
InitOverlap == AtWork /\ faults = 0 /\ h = [H0 EXCEPT !.tgOn = TRUE] /\ rev = "byname" /\ bar = <<LA>>
NextOverlap ==
  \/ FireGate
  \/ FireSave
  \/ ByNameRun
  \/ ByNameOverlap

SpecOverlap == InitOverlap /\ [][NextOverlap]_vars

(* Installation and browser start *)
InitBoot == Fresh /\ faults = 0
ByNameBoot ==
  \/ \E b \in Boots :
        \/ N_install(b)
        \/ N_startup(b)
        \/ N_ensure_find(b)
        \/ N_ensure_create(b)
        \/ N_ensure_getActive(b)
        \/ N_ensure_setActive(b)
  \/ FireSeed

NextBoot ==
  \/ CachedBoot
  \/ ByNameBoot

SpecBoot == InitBoot /\ [][NextBoot]_vars

(* Installation and browser start while the store may reject a call *)
InitBootFault == Fresh /\ faults = MaxFail
NextBootFault ==
  \/ NextBoot
  \/ C_startup_rejected

SpecBootFault == InitBootFault /\ [][NextBootFault]_vars

(* The installed extension with a user who edits the bar and its          *)
(* sub-folders and never asks for a toggle                                 *)
CachedSaves ==
  \E s \in Savers :
     \/ C_save_getMode(s)
     \/ C_save_getIds(s)
     \/ C_save_clear(s)
     \/ C_save_copy(s)
ByNameSaves ==
  \E s \in Savers :
     \/ N_save_getMode(s)
     \/ N_save_getIds(s)
     \/ N_save_clear(s)
     \/ N_save_copy(s)
InitEdit == AtWork /\ faults = 0 /\ h = H0
NextEdit ==
  \/ UserEdit
  \/ UserEditNested
  \/ FireSave
  \/ CachedSaves
  \/ ByNameSaves

SpecEdit == InitEdit /\ [][NextEdit]_vars

(* The extension from the moment it is added, with one install or startup *)
(* event to come: the user may edit the bar and ask for toggles before the *)
(* bootstrap has stored the mode                                           *)
InitEarly ==
  /\ Added
  /\ bpc = [b \in Boots |-> IF b = 1 THEN "new" ELSE "done"]
  /\ fold = <<>>
  /\ nextId = 3
  /\ faults = 0
NextEarly ==
  \/ NextBoot
  \/ UserEdit
  \/ FireGate
  \/ FireSave
  \/ CachedRun
  \/ ByNameRun

SpecEarly == InitEarly /\ [][NextEarly]_vars

(* Installation over what an earlier installation left: removing the       *)
(* extension empties chrome.storage.local and leaves the bookmark folders, *)
(* with what they held, unless the user has deleted one of them since      *)
OldPrivate == <<LB>>
OldWork == <<LA>>
LeftBehind ==
  LET all == [Installed("cached", OldPrivate).fold EXCEPT ![5].kids = OldWork]
  IN  {all} \cup {RemoveFolder(all, id) : id \in DOMAIN all}
InitReinstall ==
  /\ Unstarted
  /\ faults = 0
  /\ \E f \in LeftBehind :
        fold = [id \in DOMAIN f |->
                  IF id = 3 THEN [f[id] EXCEPT !.title = Installed(rev, <<>>).fold[3].title]
                  ELSE f[id]]
  /\ nextId = 6

SpecReinstall == InitReinstall /\ [][NextBoot]_vars

-----------------------------------------------------------------------------
(* Properties *)

(* C1: every completed toggle has saved the bar first: once the toggle has *)
(* switched, the backup folder of the mode it started in holds what the    *)
(* bar held when the toggle was requested.                                 *)
C1_SavedBeforeSwitch ==
  h.ev = "switched" => KidsOf(h.fin.mode) = h.fin.bar

(* C2: when a toggle completes and the next mode's folder was there, the   *)
(* bar holds that folder's contents and the mode flag is the complement of *)
(* what it was when the toggle was requested.                              *)
C2_BarIsNextFolder ==
  (h.ev = "switched" /\ ~h.fin.missing) =>
      /\ bar = KidsOf(kv.mode)
      /\ kv.mode = Other(h.fin.mode)

(* C3: two consecutive completed toggles with no edit and no deletion      *)
(* between them bring back the bar and the mode flag that the first of     *)
(* them started from.                                                      *)
C3_RoundTrip ==
  h.rt.n = 4 => (bar = h.rt.bar /\ kv.mode = h.rt.mode)

(* C4: a toggle requested when the next mode's folder is gone aborts, and  *)
(* the bar and the mode flag are what they were at the request.            *)
C4_AbortUntouched ==
  (h.ev \in Ends /\ h.fin.missing) =>
      /\ h.ev = "aborted"
      /\ bar = h.fin.bar
      /\ kv.mode = h.fin.mode

(* C5: no toggle requested while the gate was set is executing, and at     *)
(* most one toggle is executing.                                           *)
C5_MutualExclusion ==
  /\ \A t \in InFlight : ~h.t0[t].gated
  /\ Cardinality(InFlight) <= 1

(* C6: the debounce timer is single-slot: at most one auto-save timer is   *)
(* pending.                                                                *)
SaveTimers == {i \in DOMAIN timers : timers[i].kind = "save"}
C6_SingleSlot == Cardinality(SaveTimers) <= 1

(* C7: no timer started by a toggle's own clear-and-load of the bar has    *)
(* led to an executed auto-save: each fired with the gate set.             *)
C7_OwnSkipped == ~h.own

(* C8: with no toggle in flight, the bar equals the backup folder of the   *)
(* current mode.                                                           *)
C8_BarIsModeFolder ==
  InFlight = {} => bar = KidsOf(kv.mode)

(* C8, a state at rest that stays that way: nothing in flight, nothing     *)
(* pending, the gate clear, and the bar is not the current mode's folder   *)
C8_StaleAtRest ==
  /\ InFlight = {}
  /\ SaversInFlight = {}
  /\ timers = <<>>
  /\ ~gate
  /\ bar # KidsOf(kv.mode)

(* C9: once bootstrap has run MaxBoot times, one after another or          *)
(* overlapping, there is one backup root under the other-bookmarks anchor  *)
(* and one Private and one Work folder under it.                           *)
Named(p, name) == {id \in DOMAIN fold : fold[id].parent = p /\ fold[id].title = name}
RootName == IF rev = "cached" THEN STORAGE_FOLDER_NAME ELSE BACKUP_FOLDER_NAME
BootRuns == {b \in Boots : bpc[b] # "new"}
C9_OneOfEach ==
  (\A b \in Boots : bpc[b] = "done") =>
      /\ Cardinality(Named(OTHER_BOOKMARKS_ID, RootName)) = 1
      /\ \A r \in Named(OTHER_BOOKMARKS_ID, RootName) :
            /\ Cardinality(Named(r, PRIVATE_FOLDER_NAME)) = 1
            /\ Cardinality(Named(r, WORK_FOLDER_NAME)) = 1

(* C10: after the one bootstrap run of a fresh install has finished, its   *)
(* seeding copy included, the Private folder is a copy of the bar, the     *)
(* Work folder is empty and the mode flag is private.                      *)
FreshInstallDone ==
  /\ BootRuns = {1}
  /\ bpc[1] = "done"
  /\ \A i \in DOMAIN timers : timers[i].kind # "seed"
C10_FreshInstall ==
  FreshInstallDone =>
      /\ fold = Installed(rev, bar).fold
      /\ kv.mode = "private"

C10_Witness ==
  /\ FreshInstallDone
  /\ rev = "byname"
  /\ bar = <<LB, Dir("F", <<LA>>)>>
  /\ fold[4].kids = bar

(* C11: bootstrap adds nothing to a Private folder that was there before   *)
(* it ran, and nothing to any Work folder: the Private folder an earlier   *)
(* installation left (id 4) holds what it held, so does the Work folder it *)
(* left (id 5), and a Work folder made by bootstrap is empty.              *)
C11_SeedsOnlyItsOwn ==
  /\ Exists(fold, 4) => fold[4].kids = OldPrivate
  /\ \A id \in DOMAIN fold :
        fold[id].title = WORK_FOLDER_NAME =>
            fold[id].kids = IF id = 5 THEN OldWork ELSE <<>>

(* C12: a debounce timer that fires while the gate is set changes nothing  *)
(* in the store and starts nothing: in the step that takes the save timer  *)
(* off the queue with the gate set, the bar, the backup folders and the    *)
(* stored flags stay as they are, no save is left in flight and no timer   *)
(* is put on the queue.                                                    *)
C12_SkippedSaveDoesNothing ==
  [][(/\ gate
      /\ timers # <<>>
      /\ Head(timers).kind = "save"
      /\ Len(timers') < Len(timers))
     => /\ timers' = Fired(timers)
        /\ bar' = bar
        /\ fold' = fold
        /\ kv' = kv
        /\ spc' = spc]_vars

(* C12, its case: a save has just been skipped at the gate while the bar   *)
(* differed from the current mode's folder                                 *)
C12_Witness ==
  /\ h.ev = "skipped"
  /\ bar # KidsOf(kv.mode)
  /\ SaversInFlight = {}

(* C14: when an auto-save has run from its timer to its end with no step   *)
(* of anything else in between and no rejected store call, the folder of   *)
(* the current mode is the bar, node for node.                             *)
C14_SaveIsExactCopy ==
  h.ev = "saved" => KidsOf(kv.mode) = bar

(* C14, its case: such a save has replaced what the folder held by a bar   *)
(* with a bookmark and a sub-folder                                        *)
C14_Witness ==
  /\ h.ev = "saved"
  /\ bar = <<LB, Dir("F", <<LA>>)>>
  /\ KidsOf(kv.mode) = bar

(* C13: whenever the gate is set it is cleared later on, whether the       *)
(* toggle that set it switched, aborted or met a rejected store call; and  *)
(* a cool-down timer is armed only by a toggle that ends: no other step,   *)
(* a refused request included, puts one on the queue.                      *)
GateTimers == {i \in DOMAIN timers : timers[i].kind = "gate"}
C13_GateReleased ==
  /\ gate ~> ~gate
  /\ [][Cardinality(GateTimers') > Cardinality(GateTimers)
         => \E t \in Togglers : tpc[t] # "idle" /\ tpc'[t] = "idle"]_vars

(* C13, its case: a toggle has just ended on a rejected store call, the    *)
(* gate is still set and its cool-down timer is on the queue               *)
C13_Witness ==
  /\ h.ev = "aborted"
  /\ faults < MaxFail
  /\ gate
  /\ GateTimers # {}

(* C16: a copy in which one create call is rejected leaves out the node    *)
(* that call was to create, with what is below it, and copies every other  *)
(* node: the destination gains the source's children less that one node.   *)
(* Without(items, n): items less the node that create call n makes.        *)
RECURSIVE Without(_, _)
Without(items, n) ==
  IF items = <<>> \/ n = 0 THEN items
  ELSE IF n = 1 THEN Tail(items)
  ELSE LET item == Head(items)
           below == Size(item.kids)
       IN  IF n - 1 <= below
           THEN <<[item EXCEPT !.kids = Without(item.kids, n - 1)]>> \o Tail(items)
           ELSE <<item>> \o Without(Tail(items), n - 1 - below)

C16_FailureIsolated ==
  [][/\ \A s \in Savers :
          (spc[s] = "copy" /\ spc'[s] # "copy" /\ faults' < faults)
          => \E n \in 1..Size(bar) :
                fold'[sloc[s].target].kids
                  = fold[sloc[s].target].kids \o Without(bar, n)
     /\ \A t \in Togglers :
          (tpc[t] = "copy" /\ tpc'[t] # "copy" /\ faults' < faults)
          => \E n \in 1..Size(fold[tloc[t].src].kids) :
                bar' = bar \o Without(fold[tloc[t].src].kids, n)]_vars

(* C15: a call of the recursive copy removes nothing: in every step a save *)
(* or a toggle takes inside copyBookmarks, each list of children in the    *)
(* store (the bar's, each backup folder's) is kept and at most added to at *)
(* its end, and the source's list is unchanged.                            *)
InCopy == IF rev = "cached" THEN {"clear", "copy"} ELSE {"copy"}
IsPrefix(a, b) == Len(a) <= Len(b) /\ SubSeq(b, 1, Len(a)) = a
C15_CopyOnlyAdds ==
  [][/\ \A s \in Savers :
          (spc[s] \in InCopy /\ spc'[s] # spc[s])
          => /\ bar' = bar
             /\ \A id \in DOMAIN fold :
                   id \in DOMAIN fold' /\ IsPrefix(fold[id].kids, fold'[id].kids)
     /\ \A t \in Togglers :
          (tpc[t] \in InCopy /\ tpc'[t] # tpc[t])
          => /\ fold' = fold
             /\ IsPrefix(bar, bar')]_vars

(* C17: no rejected store call leaves an event handler: every listener and *)
(* every timer callback catches the rejection inside itself, so the event  *)
(* dispatcher never sees one.                                              *)
C17_NothingEscapes == h.ev # "escaped"

(* C18: an unset mode flag is read as private by every operation: a save   *)
(* that reads the flag unset goes on to save into the Private folder, and  *)
(* a toggle that reads it unset takes work as the mode to load and persist *)
C18_UnsetIsPrivate ==
  [][/\ \A s \in Savers :
          (kv.mode = "unset" /\ spc[s] = "getMode" /\ spc'[s] # "getMode")
          => spc'[s] = "getIds" /\ sloc'[s].mode = "private"
     /\ \A t \in Togglers :
          (kv.mode = "unset" /\ tpc[t] = "getMode" /\ tpc'[t] # "getMode")
          => tpc'[t] = "getIds" /\ tloc'[t].newMode = "work"]_vars

(* C19: every edit in the bar's subtree, edits inside a sub-folder of the  *)
(* bar included, is followed by an auto-save when no toggle is asked for:  *)
(* once every timer has fired and every save has returned, the active      *)
(* mode's backup folder holds what the bar holds.                          *)
AtRest == timers = <<>> /\ SaversInFlight = {} /\ InFlight = {}
C19_NestedEditsSaved == AtRest => KidsOf(ModeAsRead) = bar

(* C20: an auto-save and a toggle never interleave: while an auto-save     *)
(* that passed the gate test is suspended in its clear or its copy, no     *)
(* step of a toggle changes the bar or stores the mode.                    *)
AutoSaveWriting == spc[0] \in {"clear", "copy"}
C20_SaveAndToggleApart ==
  [][AutoSaveWriting
     => \A t \in Togglers :
          tpc'[t] # tpc[t] => bar' = bar /\ kv'.mode = kv.mode]_vars

=============================================================================
